---- MODULE Spec2Model ----
(***************************************************************************)
(* A model of the ledger core of gemcore (gemcore/models.py): the Entry    *)
(* table and its uniqueness constraint, Book.merge_entries and its         *)
(* transaction, the pre_delete receiver that writes EntryHistory, the      *)
(* balance report (calculate_balance, balance, month_year_iter) and        *)
(* Account.tags_for.                                                       *)
(*                                                                         *)
(* Text is a sequence of one-character strings, money is an integer number *)
(* of cents (DecimalField with decimal_places=2), a date is <<y, m, d>>,   *)
(* and Python's None is the empty set, a given value v the set {v}.        *)
(***************************************************************************)
EXTENDS Integers, Sequences, FiniteSets, TLC

VARIABLES
    entries,    \* the committed rows of the Entry table
    history,    \* the committed rows of the EntryHistory table, oldest first
    nextId,     \* the Entry table's id sequence
    pc,         \* position of the call: idle, create, pre_delete, delete, post_delete, exit, done
    call,       \* the running or just finished call: arguments, status, result, and
                \* the committed tables as they were when it began
    txEntries,  \* the Entry table as the running transaction sees it
    txHistory,  \* the EntryHistory table as the running transaction sees it
    pending,    \* instances collected for deletion that still await their signal
    report,     \* the last call of calculate_balance / balance and what it returned
    rules,      \* an account's TagRegex rows, in the order the query returns them
    tagged      \* the last call of Account.tags_for and what it returned

vars == <<entries, history, nextId, pc, call, txEntries, txHistory, pending,
          report, rules, tagged>>

(***************************************************************************)
(* Bounds of the model.                                                    *)
(***************************************************************************)
MaxId == 3          \* ids the Entry sequence hands out
MaxMerge == 2       \* entries passed to one merge_entries call
MaxBalEntries == 2  \* rows of the Entry table in the balance specification
MaxRules == 2       \* TagRegex rows of the account in the tags specification
MaxDescLen == 2     \* characters of the description given to tags_for

None == {}
Some(v) == {v}
Get(o) == CHOOSE v \in o : TRUE

(***************************************************************************)
(* Text.                                                                   *)
(***************************************************************************)
Ord ==
    ("\n" :> 10) @@ (" " :> 32) @@ ("$" :> 36) @@ ("+" :> 43) @@ ("," :> 44) @@
    ("-" :> 45) @@ ("." :> 46) @@ ("0" :> 48) @@ ("1" :> 49) @@ ("2" :> 50) @@
    ("3" :> 51) @@ ("4" :> 52) @@ ("5" :> 53) @@ ("6" :> 54) @@ ("7" :> 55) @@
    ("8" :> 56) @@ ("9" :> 57) @@ ("d" :> 100) @@ ("e" :> 101) @@ ("f" :> 102) @@
    ("n" :> 110) @@ ("o" :> 111) @@ ("r" :> 114) @@ ("t" :> 116) @@
    ("x" :> 120) @@ ("y" :> 121) @@ ("|" :> 124)

\* Python's < on str: by code point, a proper prefix first.
StrLess(a, b) ==
    \E k \in 1..Len(b) :
        /\ \A j \in 1..(k - 1) : j <= Len(a) /\ a[j] = b[j]
        /\ \/ k = Len(a) + 1
           \/ k <= Len(a) /\ Ord[a[k]] < Ord[b[k]]

RECURSIVE Sorted(_)
\* sorted(S) for a set S of strings.
Sorted(S) ==
    IF S = {} THEN <<>>
    ELSE LET m == CHOOSE x \in S : \A o \in S \ {x} : StrLess(x, o)
         IN <<m>> \o Sorted(S \ {m})

RECURSIVE Join(_, _)
\* sep.join(ss)
Join(sep, ss) ==
    IF ss = <<>> THEN <<>>
    ELSE IF Len(ss) = 1 THEN ss[1]
    ELSE ss[1] \o sep \o Join(sep, Tail(ss))

DigitChar == <<"0", "1", "2", "3", "4", "5", "6", "7", "8", "9">>

RECURSIVE Digits(_)
Digits(n) ==
    IF n < 10 THEN <<DigitChar[n + 1]>>
    ELSE Digits(n \div 10) \o <<DigitChar[(n % 10) + 1]>>

RECURSIVE Pad(_, _)
\* '%0<w>d' % n
Pad(n, w) == IF Len(Digits(n)) >= w THEN Digits(n) ELSE <<"0">> \o Pad(n, w - 1)

\* str(Decimal) of a non-negative amount held with two decimal places.
DecimalStr(c) == Digits(c \div 100) \o <<".">> \o Pad(c % 100, 2)

\* date.isoformat()
IsoFormat(d) == Pad(d[1], 4) \o <<"-">> \o Pad(d[2], 2) \o <<"-">> \o Pad(d[3], 2)

(***************************************************************************)
(* Dates.                                                                  *)
(***************************************************************************)
DateLe(a, b) ==
    \/ a[1] < b[1]
    \/ a[1] = b[1] /\ a[2] < b[2]
    \/ a[1] = b[1] /\ a[2] = b[2] /\ a[3] <= b[3]

IsLeap(y) == (y % 4 = 0 /\ y % 100 # 0) \/ y % 400 = 0

DaysInMonth(y, m) ==
    IF m = 2 THEN (IF IsLeap(y) THEN 29 ELSE 28)
    ELSE IF m \in {4, 6, 9, 11} THEN 30 ELSE 31

\* d - timedelta(days=1)
PrevDay(d) ==
    IF d[3] > 1 THEN <<d[1], d[2], d[3] - 1>>
    ELSE IF d[2] > 1 THEN <<d[1], d[2] - 1, DaysInMonth(d[1], d[2] - 1)>>
    ELSE <<d[1] - 1, 12, 31>>

(***************************************************************************)
(* The Entry table.                                                        *)
(***************************************************************************)
D1 == <<2020, 1, 5>>
D2 == <<2020, 1, 20>>

Entry(book, who, when, what, account, amount, is_income, tags, country, notes) ==
    [book |-> book, who |-> who, when |-> when, what |-> what,
     account |-> account, amount |-> amount, is_income |-> is_income,
     tags |-> tags, country |-> country, notes |-> notes]

Food == <<"f", "o", "o", "d">>
Rent == <<"r", "e", "n", "t">>

\* The entries users record in this model.
EntryPool ==
    { Entry("b1", "u1", D1, <<"x">>, "a1", 1000, FALSE, <<Food>>, "AR", <<"n">>),
      Entry("b1", "u1", D1, <<"y">>, "a1", 1500, TRUE, <<Food, Rent>>, "AR", <<>>),
      Entry("b1", "u2", D2, <<"y">>, "a1", 0, FALSE, <<>>, "AR", <<"o">>),
      Entry("b1", "u1", D1, <<"x">>, "a1", 500, TRUE, <<Rent>>, "UY", <<>>),
      Entry("b1", "u1", D1, <<"x">>, "a2", 1000, FALSE, <<>>, "AR", <<>>),
      Entry("b2", "u1", D1, <<"x">>, "a1", 1000, FALSE, <<>>, "AR", <<>>) }

Books == {"b1", "b2"}

\* The book merge_entries, balance and calculate_balance are called on.
ThisBook == "b1"

WithId(e, id) == [id |-> id] @@ e

\* Entry.Meta.unique_together
UniqueKey(e) == <<e.book, e.account, e.when, e.what, e.amount, e.is_income>>

\* The INSERT of Entry.objects.create fails when the key is taken.
UniqueViolation(table, e) == \E r \in table : UniqueKey(r) = UniqueKey(e)

\* Entry.money
Money(e) == IF e.is_income THEN e.amount ELSE 0 - e.amount

(***************************************************************************)
(* EntryHistory and the pre_delete receiver.                               *)
(***************************************************************************)
DELETE == "delete"
MERGE == "merge"

\* A receiver connected to post_delete instead.
HistorySignalPostDelete == "post_delete"

\* The signal record_entry_history is connected to.
HistorySignal == "pre_delete"

\* record_entry_history(sender, instance): the row it creates.
RecordEntryHistory(instance) ==
    [book_slug |-> instance.book,
     who_username |-> instance.who,
     when |-> IsoFormat(instance.when),
     what |-> instance.what,
     account_slug |-> instance.account,
     amount |-> DecimalStr(instance.amount),
     is_income |-> instance.is_income,
     tags |-> Join(<<",", " ">>, instance.tags),
     country_code |-> instance.country,
     notes |-> instance.notes,
     reason |-> DELETE]

\* An update_or_create keyed on the book: the row of the book is overwritten.
HistoryUpdateOrCreate(h, row) ==
    IF \E i \in 1..Len(h) : h[i].book_slug = row.book_slug
    THEN [i \in 1..Len(h) |-> IF h[i].book_slug = row.book_slug THEN row ELSE h[i]]
    ELSE Append(h, row)

\* EntryHistory.objects.create(...): a new row after those of the table.
HistoryCreate(h, row) == Append(h, row)

(***************************************************************************)
(* Book.merge_entries: validation and the derived entry.                   *)
(***************************************************************************)
NoOverride == [who |-> None, when |-> None, what |-> None]

\* The who/when/what keyword arguments callers pass in this model.
Overrides ==
    { NoOverride, [who |-> Some("u2"), when |-> Some(D1), what |-> Some(<<"x">>)] }

Image(es, f(_)) == {f(es[i]) : i \in 1..Len(es)}
BookOf(e) == e.book
AccountOf(e) == e.account
CountryOf(e) == e.country
IdOf(e) == e.id

ErrCount == "ValueError: Need at least 2 entries to merge"
ErrBook == "ValueError: Can not merge entries outside this book"
ErrAccount == "ValueError: Can not merge entries for different accounts"
ErrCountry == "ValueError: Can not merge entries for different countries"

\* The checks without the one on countries.
MergeValidateNoCountry(self, es) ==
    IF Len(es) < 2 THEN ErrCount
    ELSE IF Cardinality(Image(es, BookOf)) # 1 \/ Image(es, BookOf) # {self}
         THEN ErrBook
    ELSE IF Cardinality(Image(es, AccountOf)) # 1 THEN ErrAccount
    ELSE "ok"

\* The four checks at the head of merge_entries, in the code's order.
MergeValidate(self, es) ==
    IF Len(es) < 2 THEN ErrCount
    ELSE IF Cardinality(Image(es, BookOf)) # 1 \/ Image(es, BookOf) # {self}
         THEN ErrBook
    ELSE IF Cardinality(Image(es, AccountOf)) # 1 THEN ErrAccount
    ELSE IF Cardinality(Image(es, CountryOf)) # 1 THEN ErrCountry
    ELSE "ok"

\* '%s %s$%s' % (e.what, '+' if e.is_income else '-', e.amount)
Rendered(e) ==
    e.what \o <<" ">> \o <<IF e.is_income THEN "+" ELSE "-">> \o <<"$">>
        \o DecimalStr(e.amount)

\* The rendered entries joined in the order they were passed.
MergeWhatUnsorted(es) ==
    Join(<<" ", "|", " ">>, [i \in 1..Len(es) |-> Rendered(es[i])])

\* ' | '.join(sorted(set(...)))
MergeWhat(es) == Join(<<" ", "|", " ">>, Sorted(Image(es, Rendered)))

RECURSIVE SumMoney(_)
\* sum(e.money for e in entries)
SumMoney(es) == IF es = <<>> THEN 0 ELSE Money(Head(es)) + SumMoney(Tail(es))

RECURSIVE MergeTags(_)
\* reduce(operator.add, [e.tags for e in entries])
MergeTags(es) ==
    IF Len(es) = 1 THEN es[1].tags ELSE es[1].tags \o MergeTags(Tail(es))

\* '\n'.join(e.notes for e in entries)
MergeNotes(es) == Join(<<"\n">>, [i \in 1..Len(es) |-> es[i].notes])

Abs(n) == IF n < 0 THEN 0 - n ELSE n

\* is_income=amount >= 0
MergeIsIncomeNonNegative(es) == SumMoney(es) >= 0

\* The amount and is_income keyword arguments of the new Entry.
MergeAmount(es) == Abs(SumMoney(es))
MergeIsIncome(es) == SumMoney(es) > 0

\* kwargs of the new Entry, for entries that passed validation.
MergeKwargs(self, es, ov) ==
    LET master == es[1]
    IN Entry(self,
             IF ov.who # None THEN Get(ov.who) ELSE master.who,
             IF ov.when # None THEN Get(ov.when) ELSE master.when,
             IF ov.what # None THEN Get(ov.what) ELSE MergeWhat(es),
             Get(Image(es, AccountOf)),
             MergeAmount(es), MergeIsIncome(es), MergeTags(es),
             Get(Image(es, CountryOf)),
             MergeNotes(es))

\* A delete that spares the master entry.
MergeDeleteIdsButMaster(es) == Image(Tail(es), IdOf)

\* The ids of Entry.objects.filter(id__in=[e.id for e in entries]).
MergeDeleteIds(es) == Image(es, IdOf)

\* The create and the delete outside any atomic block.
MergeNotAtomic == FALSE

\* merge_entries runs its create and delete inside transaction.atomic().
MergeAtomic == TRUE

\* A merge that never raises DryRunError.
RaisesDryRunNever(c) == FALSE

\* if dry_run: raise DryRunError()
RaisesDryRun(c) == c.op = "merge" /\ c.dry_run

(***************************************************************************)
(* The store: one call at a time, each write inside a transaction.         *)
(***************************************************************************)
NoCall ==
    [op |-> "none", self |-> "b1", entries |-> <<>>, qs |-> {}, dry_run |-> FALSE,
     ov |-> NoOverride, status |-> "ok", result |-> None,
     before |-> [entries |-> {}, history |-> <<>>]]

NoReport ==
    [op |-> "none", self |-> "b1", qs |-> None, start |-> None, end |-> None,
     status |-> "ok", complete |-> None, months |-> <<>>]

NoTagged == [value |-> <<>>, status |-> "none", tags |-> <<>>]

Init ==
    /\ entries = {}
    /\ history = <<>>
    /\ nextId = 1
    /\ pc = "idle"
    /\ call = NoCall
    /\ txEntries = {}
    /\ txHistory = <<>>
    /\ pending = {}
    /\ report = NoReport
    /\ rules = <<>>
    /\ tagged = NoTagged

Others == <<report, rules, tagged>>

Seqs(S, n) == UNION {[1..k -> S] : k \in 0..n}

\* The entries a caller passes to merge_entries: up to MaxMerge different stored
\* entries in any order, or one stored entry twice.
MergeArgs ==
    {es \in Seqs(entries, MaxMerge) : Cardinality({es[i] : i \in 1..Len(es)}) = Len(es)}
        \cup {<<e, e>> : e \in entries}

\* Without the atomic block every statement of the merge commits by itself.
AutoCommits == call.op = "merge" /\ ~MergeAtomic

FirstPhase == IF HistorySignal = "pre_delete" THEN "pre_delete" ELSE "delete"
AfterDelete == IF HistorySignal = "post_delete" THEN "post_delete" ELSE "exit"

\* A user records an entry (the entry form's save; the row is inserted at once).
CreateEntry(e) ==
    /\ pc = "idle"
    /\ nextId <= MaxId
    /\ ~UniqueViolation(entries, e)
    /\ entries' = entries \cup {WithId(e, nextId)}
    /\ txEntries' = entries'
    /\ nextId' = nextId + 1
    /\ UNCHANGED <<history, txHistory, pc, call, pending, Others>>

\* merge_entries up to the try: the checks raise, or the call enters the block.
MergeBegin(self, es) ==
    /\ pc = "idle"
    /\ LET err == MergeValidate(self, es)
           c == [NoCall EXCEPT !.op = "merge", !.self = self, !.entries = es,
                               !.before = [entries |-> entries, history |-> history]]
       IN IF err # "ok"
          THEN \* raised before dry_run, who, when and what are read
               /\ call' = [c EXCEPT !.status = err]
               /\ pc' = "done"
          ELSE \E dry_run \in BOOLEAN, ov \in Overrides :
               /\ nextId <= MaxId \/ UniqueViolation(entries, MergeKwargs(self, es, ov))
               /\ call' = [c EXCEPT !.status = "running", !.dry_run = dry_run,
                                    !.ov = ov, !.qs = MergeDeleteIds(es)]
               /\ pc' = "create"
    /\ UNCHANGED <<entries, history, nextId, txEntries, txHistory, pending, Others>>

\* result = Entry.objects.create(**kwargs), then delete() collects its rows.
MergeCreate ==
    /\ pc = "create"
    /\ LET kw == MergeKwargs(call.self, call.entries, call.ov)
       IN IF UniqueViolation(txEntries, kw)
          THEN /\ call' = [call EXCEPT !.status = "IntegrityError"]
               /\ pc' = "done"
               /\ txEntries' = entries
               /\ txHistory' = history
               /\ UNCHANGED <<entries, nextId, pending>>
          ELSE /\ txEntries' = txEntries \cup {WithId(kw, nextId)}
               /\ nextId' = nextId + 1
               /\ call' = [call EXCEPT !.result = Some(WithId(kw, nextId))]
               /\ pending' = {r \in txEntries' : r.id \in call.qs}
               /\ pc' = FirstPhase
               /\ entries' = IF AutoCommits THEN txEntries' ELSE entries
               /\ UNCHANGED txHistory
    /\ UNCHANGED <<history, Others>>

\* entry_remove: entries.delete() on the chosen entries of the book.
EntryRemove(book, ids) ==
    /\ pc = "idle"
    /\ ids # {}
    /\ ids \subseteq {r.id : r \in {x \in entries : x.book = book}}
    /\ call' = [NoCall EXCEPT !.op = "delete", !.self = book, !.qs = ids,
                              !.before = [entries |-> entries, history |-> history],
                              !.status = "running"]
    /\ pending' = {r \in entries : r.id \in ids}
    /\ pc' = FirstPhase
    /\ UNCHANGED <<entries, history, nextId, txEntries, txHistory, Others>>

\* delete() sends the signal for the next collected instance (it sorts them by
\* primary key); the receiver runs.
Signal ==
    /\ pc \in {"pre_delete", "post_delete"}
    /\ LET r == CHOOSE x \in pending : \A y \in pending : x.id <= y.id
       IN /\ txHistory' = HistoryCreate(txHistory, RecordEntryHistory(r))
          /\ pending' = pending \ {r}
    /\ pc' = IF pending' # {} THEN pc
             ELSE IF pc = "pre_delete" THEN "delete" ELSE "exit"
    /\ entries' = IF AutoCommits /\ pc' = "exit" THEN txEntries ELSE entries
    /\ history' = IF AutoCommits /\ pc' = "exit" THEN txHistory' ELSE history
    /\ UNCHANGED <<nextId, call, txEntries, Others>>

\* delete() removes the collected rows.
DeleteRows ==
    /\ pc = "delete"
    /\ txEntries' = {r \in txEntries : r.id \notin call.qs}
    /\ pending' = IF AfterDelete = "post_delete"
                  THEN {r \in txEntries : r.id \in call.qs} ELSE {}
    /\ pc' = AfterDelete
    /\ entries' = IF AutoCommits /\ pc' = "exit" THEN txEntries' ELSE entries
    /\ history' = IF AutoCommits /\ pc' = "exit" THEN txHistory ELSE history
    /\ UNCHANGED <<nextId, call, txHistory, Others>>

\* The atomic block is left normally: the transaction commits.
Commit ==
    /\ pc = "exit"
    /\ ~RaisesDryRun(call)
    /\ entries' = txEntries
    /\ history' = txHistory
    /\ call' = [call EXCEPT !.status = "ok"]
    /\ pc' = "done"
    /\ UNCHANGED <<nextId, txEntries, txHistory, pending, Others>>

\* dry_run: DryRunError leaves the block, which rolls back; the except swallows it.
DryRunRollback ==
    /\ pc = "exit"
    /\ RaisesDryRun(call)
    /\ txEntries' = entries
    /\ txHistory' = history
    /\ call' = [call EXCEPT !.status = "ok"]
    /\ pc' = "done"
    /\ UNCHANGED <<entries, history, nextId, pending, Others>>

\* The process or the connection dies inside a transaction: the store rolls back.
Crash ==
    /\ pc \notin {"idle", "done"}
    /\ txEntries' = entries
    /\ txHistory' = history
    /\ pending' = {}
    /\ call' = NoCall
    /\ pc' = "idle"
    /\ UNCHANGED <<entries, history, nextId, Others>>

\* The caller has the result or the exception; the next call may start.
Return ==
    /\ pc = "done"
    /\ call' = NoCall
    /\ report' = NoReport
    /\ tagged' = NoTagged
    /\ pc' = "idle"
    /\ UNCHANGED <<entries, history, nextId, txEntries, txHistory, pending, rules>>

Next ==
    \/ \E e \in EntryPool : CreateEntry(e)
    \/ \E es \in MergeArgs : MergeBegin(ThisBook, es)
    \/ MergeCreate
    \/ \E book \in Books, ids \in SUBSET {r.id : r \in entries} : EntryRemove(book, ids)
    \/ Signal
    \/ DeleteRows
    \/ Commit
    \/ DryRunRollback
    \/ Crash
    \/ Return

Spec == Init /\ [][Next]_vars

(***************************************************************************)
(* The balance report: month_year_iter, Book.calculate_balance and         *)
(* Book.balance, read-only calls over an Entry table that already holds    *)
(* rows.                                                                   *)
(***************************************************************************)
\* A range that stops one month early: range(ym_start, ym_end - 1).
MonthYearIterEndExclusive(start, end) ==
    LET ym_start == 12 * start[1] + start[2] - 1
        ym_end == 12 * end[1] + end[2] - 1
    IN [k \in 1..(ym_end - ym_start) |->
            LET ym == ym_start + k - 1 IN <<ym \div 12, (ym % 12) + 1, 1>>]

\* month_year_iter(start, end): the dates it yields, in order.
MonthYearIter(start, end) ==
    LET ym_start == 12 * start[1] + start[2] - 1
        ym_end == 12 * end[1] + end[2]
    IN [k \in 1..(ym_end - ym_start) |->
            LET ym == ym_start + k - 1 IN <<ym \div 12, (ym % 12) + 1, 1>>]

\* A range test that leaves the end date out.
InRangeEndExclusive(qs, start, end) ==
    {r \in qs : DateLe(start, r.when) /\ DateLe(r.when, end) /\ r.when # end}

\* entries.filter(when__range=(start, end))
InRange(qs, start, end) == {r \in qs : DateLe(start, r.when) /\ DateLe(r.when, end)}

RECURSIVE SumAmount(_)
\* Sum('amount') over a group of rows
SumAmount(rows) ==
    IF rows = {} THEN 0
    ELSE LET r == CHOOSE x \in rows : TRUE IN r.amount + SumAmount(rows \ {r})

\* entries.values('is_income').annotate(models.Sum('amount')): one total per
\* value of is_income that occurs.
Totals(rows) ==
    {[is_income |-> b, amount__sum |-> SumAmount({r \in rows : r.is_income = b})] :
        b \in {r.is_income : r \in rows}}

RECURSIVE AddTotals(_, _)
\* for t in totals: result[key] += value
AddTotals(result, totals) ==
    IF totals = {} THEN result
    ELSE LET t == CHOOSE x \in totals : TRUE
             key == IF t.is_income THEN "income" ELSE "expense"
         IN AddTotals([result EXCEPT ![key] = @ + t.amount__sum], totals \ {t})

\* A range test that lets every pair of dates through.
RangeOkAlways(start, end) == TRUE

\* assert start <= end, start
RangeOk(start, end) == DateLe(start, end)

\* calculate_balance(entries, start, end), for start <= end.
CalculateBalance(qs, start, end) ==
    LET totals == Totals(InRange(qs, start, end))
        result == AddTotals([start |-> start, end |-> end, result |-> 0,
                             income |-> 0, expense |-> 0], totals)
    IN [result EXCEPT !.result = result.income - result.expense]

\* entries.earliest('when').when and entries.latest('when').when
Earliest(qs) == (CHOOSE r \in qs : \A o \in qs : DateLe(r.when, o.when)).when
Latest(qs) == (CHOOSE r \in qs : \A o \in qs : DateLe(o.when, r.when)).when

\* The months list of balance(): one calculate_balance per window of its loop.
Months(qs, start, end) ==
    LET it == MonthYearIter(start, end)
    IN [k \in 1..Len(it) |->
            IF k < Len(it) THEN CalculateBalance(qs, it[k], PrevDay(it[k + 1]))
            ELSE CalculateBalance(qs, it[k], end)]

RECURSIVE SumResults(_)
\* sanity_check += month_balance['result']
SumResults(months) ==
    IF months = <<>> THEN 0 ELSE Head(months).result + SumResults(Tail(months))

ErrRange == "AssertionError: start <= end"
ErrSanity == "AssertionError: sanity_check == result['result']"
ErrEmpty == "Entry.DoesNotExist"

\* balance(entries, start, end) on book self: what the call returns or raises.
BalanceOutcome(self, qs, start, end) ==
    LET r == [NoReport EXCEPT !.op = "balance", !.self = self, !.qs = qs,
                              !.start = start, !.end = end]
        es == IF qs = None THEN {x \in entries : x.book = self} ELSE Get(qs)
    IN IF qs # None /\ es = {} THEN [r EXCEPT !.status = "None"]
       ELSE IF es = {} /\ (start = None \/ end = None) THEN [r EXCEPT !.status = ErrEmpty]
       ELSE LET s == IF start = None THEN Earliest(es) ELSE Get(start)
                e == IF end = None THEN Latest(es) ELSE Get(end)
            IN IF ~RangeOk(s, e) THEN [r EXCEPT !.status = ErrRange]
               ELSE LET complete == CalculateBalance(es, s, e)
                        months == Months(es, s, e)
                    IN IF SumResults(months) # complete.result
                       THEN [r EXCEPT !.status = ErrSanity]
                       ELSE [r EXCEPT !.status = "ok", !.complete = Some(complete),
                                      !.months = months]

\* The rows the Entry table may hold when a report is asked for.
BalancePool ==
    << Entry("b1", "u1", <<2019, 12, 31>>, <<"x">>, "a1", 1000, FALSE, <<>>, "AR", <<>>),
       Entry("b1", "u1", D1, <<"x">>, "a1", 1000, FALSE, <<>>, "AR", <<>>),
       Entry("b1", "u1", D2, <<"y">>, "a1", 1500, TRUE, <<>>, "AR", <<>>),
       Entry("b1", "u1", <<2020, 2, 29>>, <<"y">>, "a1", 500, TRUE, <<>>, "AR", <<>>),
       Entry("b1", "u1", <<2020, 3, 2>>, <<"x">>, "a1", 1500, FALSE, <<>>, "AR", <<>>),
       Entry("b2", "u1", D1, <<"x">>, "a1", 500, FALSE, <<>>, "AR", <<>>) >>

\* The start and end dates callers pass.
BalanceDates ==
    { <<2019, 12, 31>>, <<2020, 1, 1>>, <<2020, 1, 10>>, <<2020, 1, 31>>,
      <<2020, 2, 1>>, <<2020, 3, 2>> }

OptionalDates == {None} \cup {Some(d) : d \in BalanceDates}

InitBalance ==
    /\ \E I \in SUBSET (1..Len(BalancePool)) :
        /\ Cardinality(I) <= MaxBalEntries
        /\ entries = {WithId(BalancePool[i], i) : i \in I}
    /\ txEntries = entries
    /\ history = <<>>
    /\ txHistory = <<>>
    /\ nextId = Len(BalancePool) + 1
    /\ pc = "idle"
    /\ call = NoCall
    /\ pending = {}
    /\ report = NoReport
    /\ rules = <<>>
    /\ tagged = NoTagged

Store == <<entries, history, nextId, call, txEntries, txHistory, pending>>

\* calculate_balance is called on a queryset of the table.
CallCalculateBalance(qs, start, end) ==
    /\ pc = "idle"
    /\ pc' = "done"
    /\ report' = IF RangeOk(start, end)
                 THEN [NoReport EXCEPT !.op = "calculate_balance", !.qs = Some(qs),
                           !.start = Some(start), !.end = Some(end), !.status = "ok",
                           !.complete = Some(CalculateBalance(qs, start, end))]
                 ELSE [NoReport EXCEPT !.op = "calculate_balance", !.qs = Some(qs),
                           !.start = Some(start), !.end = Some(end),
                           !.status = ErrRange]
    /\ UNCHANGED <<Store, rules, tagged>>

\* balance is called with a queryset of the table, or with none.
CallBalance(self, qs, start, end) ==
    /\ pc = "idle"
    /\ pc' = "done"
    /\ report' = BalanceOutcome(self, qs, start, end)
    /\ UNCHANGED <<Store, rules, tagged>>

\* The dates month_year_iter is called with.
IterDates == BalanceDates \cup { <<2020, 1, 15>>, <<2021, 1, 1>> }

\* month_year_iter is run to its end; the report holds the dates it yielded.
CallMonthYearIter(start, end) ==
    /\ pc = "idle"
    /\ pc' = "done"
    /\ report' = [NoReport EXCEPT !.op = "month_year_iter", !.start = Some(start),
                                  !.end = Some(end), !.months = MonthYearIter(start, end)]
    /\ UNCHANGED <<Store, rules, tagged>>

NextBalance ==
    \/ \E qs \in SUBSET entries, start \in BalanceDates, end \in BalanceDates :
          CallCalculateBalance(qs, start, end)
    \/ \E qs \in {None} \cup {Some(q) : q \in SUBSET entries},
          start \in OptionalDates, end \in OptionalDates :
          CallBalance(ThisBook, qs, start, end)
    \/ \E start \in IterDates, end \in IterDates : CallMonthYearIter(start, end)
    \/ Return

SpecBalance == InitBalance /\ [][NextBalance]_vars

(***************************************************************************)
(* Account.tags_for over an account's TagRegex rows.                       *)
(***************************************************************************)
\* A regex is a sequence of tokens: "^", ".", ".*" or a literal character.
RECURSIVE MatchAt(_, _, _, _)
\* The pattern from token i on matches the value from character j on.
MatchAt(p, i, v, j) ==
    IF i > Len(p) THEN TRUE
    ELSE IF p[i] = "^" THEN j = 1 /\ MatchAt(p, i + 1, v, j)
    ELSE IF p[i] = ".*" THEN \E k \in j..(Len(v) + 1) : MatchAt(p, i + 1, v, k)
    ELSE IF p[i] = "." THEN j <= Len(v) /\ MatchAt(p, i + 1, v, j + 1)
    ELSE j <= Len(v) /\ v[j] = p[i] /\ MatchAt(p, i + 1, v, j + 1)

\* re.fullmatch: the whole value must be consumed.
RECURSIVE FullMatchAt(_, _, _, _)
FullMatchAt(p, i, v, j) ==
    IF i > Len(p) THEN j = Len(v) + 1
    ELSE IF p[i] = "^" THEN j = 1 /\ FullMatchAt(p, i + 1, v, j)
    ELSE IF p[i] = ".*" THEN \E k \in j..(Len(v) + 1) : FullMatchAt(p, i + 1, v, k)
    ELSE IF p[i] = "." THEN j <= Len(v) /\ FullMatchAt(p, i + 1, v, j + 1)
    ELSE j <= Len(v) /\ v[j] = p[i] /\ FullMatchAt(p, i + 1, v, j + 1)

ReFullMatch(p, v) == FullMatchAt(p, 1, v, 1)

\* re.compile(regex).match(value)
ReMatch(p, v) == MatchAt(p, 1, v, 1)

\* A loop that keeps the first transfer recorded for a tag.
SetTagKeepFirst(tags, r) ==
    [t \in DOMAIN tags \cup {r.tag} |-> IF t \in DOMAIN tags THEN tags[t] ELSE r.transfer]

\* tags[i.tag] = i.transfer
SetTag(tags, r) ==
    [t \in DOMAIN tags \cup {r.tag} |-> IF t = r.tag THEN r.transfer ELSE tags[t]]

RECURSIVE TagsForLoop(_, _, _)
\* for i in self.tagregex_set.all(): ...
TagsForLoop(rs, value, tags) ==
    IF rs = <<>> THEN tags
    ELSE TagsForLoop(Tail(rs), value,
                     IF ReMatch(Head(rs).regex, value) THEN SetTag(tags, Head(rs))
                     ELSE tags)

\* Account.tags_for(value) for an account whose rules are rs.
TagsFor(rs, value) == TagsForLoop(rs, value, <<>>)

Regexes == { <<"^", "S", ".*">>, <<"S", "U">>, <<".", "U">>, <<"U">> }
TagNames == {Food, Rent}
Transfers == {None, Some("a2")}
Letters == {"S", "U"}

RulePool == [regex : Regexes, tag : TagNames, transfer : Transfers]

\* TagRegex.Meta.unique_together, with the account fixed
RulesUnique(rs) ==
    \A i, j \in 1..Len(rs) :
        (rs[i].regex = rs[j].regex /\ rs[i].tag = rs[j].tag) => i = j

InitTags ==
    /\ entries = {}
    /\ txEntries = {}
    /\ history = <<>>
    /\ txHistory = <<>>
    /\ nextId = 1
    /\ pc = "idle"
    /\ call = NoCall
    /\ pending = {}
    /\ report = NoReport
    /\ rules \in {rs \in Seqs(RulePool, MaxRules) : RulesUnique(rs)}
    /\ tagged = NoTagged

CallTagsFor(value) ==
    /\ pc = "idle"
    /\ pc' = "done"
    /\ tagged' = [value |-> value, status |-> "ok", tags |-> TagsFor(rules, value)]
    /\ UNCHANGED <<Store, report, rules>>

NextTags ==
    \/ \E value \in Seqs(Letters, MaxDescLen) : CallTagsFor(value)
    \/ Return

SpecTags == InitTags /\ [][NextTags]_vars

(***************************************************************************)
(* Reading the claims: what a call was given and what it left behind.      *)
(***************************************************************************)
Running == pc \in {"create", "pre_delete", "delete", "post_delete", "exit"}
Finished(op) == pc = "done" /\ call.op = op

Indices(es) == 1..Len(es)

TooFew(es) == Len(es) < 2
OutsideBook(self, es) == \E i \in Indices(es) : es[i].book # self
ManyAccounts(es) == \E i, j \in Indices(es) : es[i].account # es[j].account
ManyCountries(es) == \E i, j \in Indices(es) : es[i].country # es[j].country

PreconditionsHold(self, es) ==
    ~TooFew(es) /\ ~OutsideBook(self, es) /\ ~ManyAccounts(es) /\ ~ManyCountries(es)

StoreUntouched ==
    entries = call.before.entries /\ history = call.before.history

SourceIds == {call.entries[i].id : i \in Indices(call.entries)}

\* The rows the call added to a history table that began as call.before.history.
NewRows(h) == SubSeq(h, Len(call.before.history) + 1, Len(h))
Extends(h) ==
    /\ Len(h) >= Len(call.before.history)
    /\ SubSeq(h, 1, Len(call.before.history)) = call.before.history

DigitValue(c) == Ord[c] - Ord["0"]

RECURSIVE ParseNat(_)
ParseNat(s) ==
    IF s = <<>> THEN 0
    ELSE 10 * ParseNat(SubSeq(s, 1, Len(s) - 1)) + DigitValue(s[Len(s)])

ParseDecimal(s) ==
    LET p == CHOOSE i \in 1..Len(s) : s[i] = "."
    IN 100 * ParseNat(SubSeq(s, 1, p - 1)) + ParseNat(SubSeq(s, p + 1, Len(s)))

ParseIso(s) ==
    <<ParseNat(SubSeq(s, 1, 4)), ParseNat(SubSeq(s, 6, 7)), ParseNat(SubSeq(s, 9, 10))>>

RECURSIVE SplitTags(_)
SplitTags(s) ==
    IF s = <<>> THEN <<>>
    ELSE IF \E i \in 1..Len(s) : s[i] = ","
    THEN LET p == CHOOSE i \in 1..Len(s) : s[i] = "," /\ \A j \in 1..(i - 1) : s[j] # ","
         IN <<SubSeq(s, 1, p - 1)>> \o SplitTags(SubSeq(s, p + 2, Len(s)))
    ELSE <<s>>

\* History row h is a snapshot of entry r.
SnapshotOf(h, r) ==
    /\ h.book_slug = r.book
    /\ h.who_username = r.who
    /\ ParseIso(h.when) = r.when
    /\ h.what = r.what
    /\ h.account_slug = r.account
    /\ ParseDecimal(h.amount) = r.amount
    /\ h.is_income = r.is_income
    /\ SplitTags(h.tags) = r.tags
    /\ h.country_code = r.country
    /\ h.notes = r.notes

OneSnapshot(rows, r) ==
    Cardinality({i \in 1..Len(rows) : SnapshotOf(rows[i], r)}) = 1

\* The (book, account, when, what, amount, is_income) of the entry the merge
\* derives is the key of a row already stored when the call began.
KeyTaken ==
    UniqueViolation(call.before.entries,
                    MergeKwargs(call.self, call.entries, call.ov))

(***************************************************************************)
(* C3: a merge_entries call that violates a precondition fails with the    *)
(* error of a violated precondition, never enters the transaction, and     *)
(* leaves the Entry and EntryHistory tables exactly as they were.          *)
(***************************************************************************)
C3_RejectedMergeLeavesStore ==
    (call.op = "merge" /\ ~PreconditionsHold(call.self, call.entries)) =>
        /\ pc = "done"
        /\ call.status \in {ErrCount, ErrBook, ErrAccount, ErrCountry}
        /\ call.status = ErrCount => TooFew(call.entries)
        /\ call.status = ErrBook => OutsideBook(call.self, call.entries)
        /\ call.status = ErrAccount => ManyAccounts(call.entries)
        /\ call.status = ErrCountry => ManyCountries(call.entries)
        /\ StoreUntouched
        /\ txEntries = entries /\ txHistory = history

C3_Witness ==
    /\ Finished("merge")
    /\ call.status = ErrBook
    /\ \E i, j \in Indices(call.entries) : call.entries[i].book # call.entries[j].book
    /\ \A i \in Indices(call.entries) : call.entries[i] \in entries

(***************************************************************************)
(* C4: merge is atomic. While a merge is running, and after it failed or   *)
(* was a dry run, the committed tables are those of before the call (all   *)
(* sources stored and unhistoried, no merged entry); once it has           *)
(* committed, the merged entry is stored, no source is, and each source    *)
(* has its history row. No committed state is in between.                  *)
(***************************************************************************)
C4_MergeAtomic ==
    call.op = "merge" =>
        \/ /\ StoreUntouched
           /\ SourceIds \subseteq {r.id : r \in entries}
           /\ ~(Finished("merge") /\ call.status = "ok" /\ ~call.dry_run)
        \/ /\ Finished("merge") /\ call.status = "ok" /\ ~call.dry_run
           /\ Get(call.result) \in entries
           /\ \A r \in entries : r.id \notin SourceIds
           /\ Extends(history)
           /\ \A i \in Indices(call.entries) :
                  OneSnapshot(NewRows(history), call.entries[i])

C4_Witness ==
    /\ call.op = "merge" /\ pc = "delete" /\ ~call.dry_run
    /\ Get(call.result) \in txEntries
    /\ Len(txHistory) > Len(history)
    /\ entries = call.before.entries

(***************************************************************************)
(* C5 as stated: whenever the four preconditions hold and dry_run is       *)
(* false, merge_entries completes without error, the merged entry is       *)
(* stored, no source is, and the number of stored entries went down by     *)
(* the number of entries passed minus one.                                 *)
(***************************************************************************)
C5_Original ==
    (Finished("merge") /\ PreconditionsHold(call.self, call.entries) /\ ~call.dry_run) =>
        /\ call.status = "ok"
        /\ Get(call.result) \in entries
        /\ \A r \in entries : r.id \notin SourceIds
        /\ Cardinality(entries) =
               Cardinality(call.before.entries) - (Len(call.entries) - 1)

(***************************************************************************)
(* What merge_entries does where C5 says it completes: with the            *)
(* preconditions holding and dry_run false, the call fails with the        *)
(* store's integrity error and changes nothing when the key of the derived *)
(* entry is already stored (by a source or by any other entry); otherwise  *)
(* it completes, the merged entry is stored, no source is, and the number  *)
(* of stored entries went down by the number of distinct sources minus     *)
(* one.                                                                    *)
(***************************************************************************)
C5_MergeReplacesSources ==
    (Finished("merge") /\ PreconditionsHold(call.self, call.entries) /\ ~call.dry_run) =>
        IF KeyTaken
        THEN call.status = "IntegrityError" /\ StoreUntouched
        ELSE /\ call.status = "ok"
             /\ Get(call.result) \in entries
             /\ \A r \in entries : r.id \notin SourceIds
             /\ Cardinality(entries) =
                    Cardinality(call.before.entries) - (Cardinality(SourceIds) - 1)

C5_Witness ==
    /\ Finished("merge") /\ call.status = "ok" /\ ~call.dry_run
    /\ Cardinality(SourceIds) = 2
    /\ Get(call.result) \in entries
    /\ Cardinality(entries) = Cardinality(call.before.entries) - 1

(***************************************************************************)
(* C6 as stated: a dry-run merge on entries that satisfy the preconditions *)
(* returns the would-be entry normally and leaves both tables as they      *)
(* were.                                                                   *)
(***************************************************************************)
C6_Original ==
    (Finished("merge") /\ PreconditionsHold(call.self, call.entries) /\ call.dry_run) =>
        /\ call.status = "ok"
        /\ call.result # None
        /\ StoreUntouched

(***************************************************************************)
(* What a dry run does where C6 says it returns normally: a dry-run merge  *)
(* on entries that satisfy the preconditions leaves both tables as they    *)
(* were and never lets DryRunError out; it returns the would-be entry,     *)
(* unless the key of that entry is already stored, in which case it fails  *)
(* with the store's integrity error.                                       *)
(***************************************************************************)
C6_DryRunLeavesStore ==
    (Finished("merge") /\ PreconditionsHold(call.self, call.entries) /\ call.dry_run) =>
        /\ StoreUntouched
        /\ txEntries = entries /\ txHistory = history
        /\ call.status # "DryRunError"
        /\ IF KeyTaken
           THEN call.status = "IntegrityError" /\ call.result = None
           ELSE /\ call.status = "ok"
                /\ call.result # None
                /\ UniqueKey(Get(call.result)) =
                       UniqueKey(MergeKwargs(call.self, call.entries, call.ov))
                /\ Get(call.result) \notin entries

C6_Witness ==
    /\ Finished("merge") /\ call.status = "ok" /\ call.dry_run
    /\ call.result # None
    /\ Cardinality(SourceIds) = 2
    /\ \A i \in Indices(call.entries) : call.entries[i] \in entries

(***************************************************************************)
(* C7: every removal of an entry has exactly one history row that is a     *)
(* snapshot of it, and the row is written before the entry goes: inside    *)
(* the transaction an entry is never gone without its row, no row is       *)
(* written for anything but a collected entry, and the committed tables    *)
(* after a delete or a merge hold one new row per removed entry.           *)
(***************************************************************************)
C7_SnapshotThenDelete ==
    /\ (Running /\ call.op \in {"merge", "delete"}) =>
        /\ Extends(txHistory)
        /\ \A r \in call.before.entries :
               r \notin txEntries => OneSnapshot(NewRows(txHistory), r)
        /\ \A i \in 1..Len(NewRows(txHistory)) :
               \E r \in call.before.entries :
                   r.id \in call.qs /\ SnapshotOf(NewRows(txHistory)[i], r)
        /\ Len(NewRows(txHistory)) <= Cardinality(call.qs)
    /\ (pc = "done" /\ call.op \in {"merge", "delete"}) =>
        /\ Extends(history)
        /\ Len(NewRows(history)) = Cardinality(call.before.entries \ entries)
        /\ \A r \in call.before.entries \ entries : OneSnapshot(NewRows(history), r)

C7_Witness ==
    /\ Finished("delete") /\ call.status = "ok"
    /\ Cardinality(call.before.entries \ entries) = 2
    /\ Len(NewRows(history)) = 2

(***************************************************************************)
(* C8 as stated: the history row of an entry removed by a direct deletion  *)
(* has reason 'delete', and the row of each source consumed by a committed *)
(* merge has reason 'merge'.                                               *)
(***************************************************************************)
C8_ReasonTellsCause ==
    (pc = "done" /\ call.status = "ok") =>
        /\ call.op = "delete" =>
               \A i \in 1..Len(NewRows(history)) : NewRows(history)[i].reason = DELETE
        /\ (call.op = "merge" /\ ~call.dry_run) =>
               \A i \in 1..Len(NewRows(history)) : NewRows(history)[i].reason = MERGE

RECURSIVE Total(_, _)
\* The sum of the amounts of the entries of es at the indices I.
Total(es, I) ==
    IF I = {} THEN 0
    ELSE LET i == CHOOSE x \in I : TRUE IN es[i].amount + Total(es, I \ {i})

IncomeTotal(es) == Total(es, {i \in Indices(es) : es[i].is_income})
ExpenseTotal(es) == Total(es, {i \in Indices(es) : ~es[i].is_income})

(***************************************************************************)
(* C9: the merged entry's amount is the absolute value of the sources'     *)
(* income total minus their expense total, and it is an income exactly     *)
(* when the income total is strictly larger (a zero sum gives amount 0,    *)
(* not an income).                                                         *)
(***************************************************************************)
C9_MergedAmount ==
    (call.op = "merge" /\ call.result # None) =>
        LET inc == IncomeTotal(call.entries)
            exp == ExpenseTotal(call.entries)
            m == Get(call.result)
        IN /\ m.amount = (IF inc >= exp THEN inc - exp ELSE exp - inc)
           /\ m.is_income = (inc > exp)

C9_Witness ==
    /\ Finished("merge") /\ call.status = "ok"
    /\ Len(call.entries) = 2
    /\ call.entries[1].amount = 1000 /\ ~call.entries[1].is_income
    /\ call.entries[2].amount = 1500 /\ call.entries[2].is_income
    /\ Get(call.result).amount = 500 /\ Get(call.result).is_income

C9_WitnessZero ==
    /\ Finished("merge") /\ call.status = "ok"
    /\ IncomeTotal(call.entries) = ExpenseTotal(call.entries)
    /\ Get(call.result).amount = 0 /\ ~Get(call.result).is_income

(***************************************************************************)
(* Reading the reports.                                                    *)
(***************************************************************************)
\* A date as one number, to compare dates without DateLe.
Ordinal(d) == 10000 * d[1] + 100 * d[2] + d[3]
Within(d, s, e) == Ordinal(s) <= Ordinal(d) /\ Ordinal(d) <= Ordinal(e)

RECURSIVE SumOf(_)
\* The sum of the amounts of a set of rows.
SumOf(rows) ==
    IF rows = {} THEN 0
    ELSE LET r == CHOOSE x \in rows : \A y \in rows : x.id <= y.id
         IN r.amount + SumOf(rows \ {r})

\* The entries a balance call works on, and its dates once defaulted.
ReportEntries ==
    IF report.qs = None THEN {x \in entries : x.book = report.self} ELSE Get(report.qs)
ReportStart ==
    IF report.start # None THEN Get(report.start)
    ELSE (CHOOSE r \in ReportEntries :
              \A o \in ReportEntries : Ordinal(r.when) <= Ordinal(o.when)).when
ReportEnd ==
    IF report.end # None THEN Get(report.end)
    ELSE (CHOOSE r \in ReportEntries :
              \A o \in ReportEntries : Ordinal(o.when) <= Ordinal(r.when)).when

(***************************************************************************)
(* C1 as stated: for a non-empty collection of entries and dates           *)
(* start <= end, given or defaulted, balance returns a report whose        *)
(* months' results add up to the complete result; it never aborts on the   *)
(* cross-check.                                                            *)
(***************************************************************************)
C1_MonthsAddUp ==
    (pc = "done" /\ report.op = "balance" /\ ReportEntries # {}
        /\ Ordinal(ReportStart) <= Ordinal(ReportEnd)) =>
        /\ report.status = "ok"
        /\ SumResults(report.months) = Get(report.complete).result

\* What a finished calculate_balance call reports, against the entries it was
\* given.
C2_State ==
    (pc = "done" /\ report.op = "calculate_balance"
        /\ Ordinal(Get(report.start)) <= Ordinal(Get(report.end))) =>
        LET qs == Get(report.qs)
            in == {r \in qs : Within(r.when, Get(report.start), Get(report.end))}
            c == Get(report.complete)
        IN /\ report.status = "ok"
           /\ c.income = SumOf({r \in in : r.is_income})
           /\ c.expense = SumOf({r \in in : ~r.is_income})
           /\ c.result = c.income - c.expense
           /\ in = {} => (c.income = 0 /\ c.expense = 0 /\ c.result = 0)
           /\ c.start = Get(report.start) /\ c.end = Get(report.end)
           /\ qs \subseteq entries

(***************************************************************************)
(* C2: for start <= end, calculate_balance returns as income the sum of    *)
(* the amounts of the income entries dated within [start, end], as expense *)
(* the same sum over the other entries, and as result income - expense     *)
(* (all zero when no entry is in the window); the call changes neither the *)
(* Entry table nor the EntryHistory table.                                 *)
(***************************************************************************)
C2_CalculateBalance ==
    /\ []C2_State
    /\ [][report' # report => UNCHANGED <<entries, history, txEntries, txHistory>>]_vars

C2_Witness ==
    /\ pc = "done" /\ report.op = "calculate_balance" /\ report.status = "ok"
    /\ Get(report.complete).income = 1500
    /\ Get(report.complete).expense = 1000
    /\ Get(report.complete).result = 500
    /\ Get(report.start) = <<2020, 1, 1>> /\ Get(report.end) = <<2020, 1, 31>>
    /\ Cardinality(Get(report.qs)) = 2

C2_WitnessEmptyWindow ==
    /\ pc = "done" /\ report.op = "calculate_balance" /\ report.status = "ok"
    /\ Get(report.qs) # {}
    /\ Get(report.complete).income = 0 /\ Get(report.complete).expense = 0

(***************************************************************************)
(* Reading the tags: which rules match a description, by a position-set     *)
(* automaton rather than by the backtracking of MatchAt.                    *)
(***************************************************************************)
\* Positions of pattern p reachable without consuming input, from the set P,
\* when n characters have been consumed.
RECURSIVE Closure(_, _, _)
Closure(p, P, n) ==
    LET more == P \cup {i + 1 : i \in {x \in P : x < Len(p) /\
                                      (p[x + 1] = ".*" \/ (p[x + 1] = "^" /\ n = 0))}}
    IN IF more = P THEN P ELSE Closure(p, more, n)

\* Positions after consuming character c from the positions P.
Consume(p, P, c) ==
    {i \in P : i < Len(p) /\ p[i + 1] = ".*"} \cup
    {i + 1 : i \in {x \in P : x < Len(p) /\ p[x + 1] \notin {".*", "^"} /\
                              (p[x + 1] = "." \/ p[x + 1] = c)}}

RECURSIVE Positions(_, _, _)
\* Positions of p reached after the first n characters of w.
Positions(p, w, n) ==
    IF n = 0 THEN Closure(p, {0}, 0)
    ELSE Closure(p, Consume(p, Positions(p, w, n - 1), w[n]), n)

\* Pattern p matches some prefix of w.
MatchesPrefix(p, w) == \E n \in 0..Len(w) : Len(p) \in Positions(p, w, n)

MatchingRules(t) ==
    {i \in 1..Len(rules) : rules[i].tag = t /\ MatchesPrefix(rules[i].regex, tagged.value)}

Last(I) == CHOOSE i \in I : \A j \in I : j <= i

(***************************************************************************)
(* C10: tags_for returns a mapping that holds a tag exactly when some rule *)
(* of the account with that tag matches at the start of the description;   *)
(* the tag's value is the transfer of the last such rule in the order of   *)
(* the rules; the mapping is empty when no rule matches.                   *)
(***************************************************************************)
C10_TagsFor ==
    (pc = "done" /\ tagged.status = "ok") =>
        /\ DOMAIN tagged.tags = {t \in TagNames : MatchingRules(t) # {}}
        /\ \A t \in DOMAIN tagged.tags :
               tagged.tags[t] = rules[Last(MatchingRules(t))].transfer

\* Two rules with different tags both match: both tags are kept.
C10_Witness ==
    /\ pc = "done" /\ tagged.status = "ok"
    /\ tagged.value = <<"S", "U">>
    /\ Len(rules) = 2
    /\ rules[1] = [regex |-> <<"^", "S", ".*">>, tag |-> Food, transfer |-> None]
    /\ rules[2] = [regex |-> <<"^", "S", ".*">>, tag |-> Rent, transfer |-> Some("a2")]
    /\ DOMAIN tagged.tags = {Food, Rent}
    /\ tagged.tags[Food] = None /\ tagged.tags[Rent] = Some("a2")

\* Two matching rules with the same tag: the later one's transfer is kept.
C10_WitnessLastWins ==
    /\ pc = "done" /\ tagged.status = "ok"
    /\ Cardinality(MatchingRules(Food)) = 2
    /\ rules[1].transfer # rules[2].transfer
    /\ tagged.tags[Food] = rules[2].transfer

\* No rule matches although the account has rules: the mapping is empty.
C10_WitnessNoMatch ==
    /\ pc = "done" /\ tagged.status = "ok"
    /\ Len(rules) = 2
    /\ DOMAIN tagged.tags = {}

(***************************************************************************)
(* C11: for S <= E, month_year_iter(S, E) yields first-of-month dates      *)
(* only, the first in S's month and the last in E's month, each the month  *)
(* after the one before it (so ascending, without repeats or gaps), and    *)
(* 12*(E.year - S.year) + E.month - S.month + 1 of them.                   *)
(***************************************************************************)
C11_MonthYearIter ==
    (pc = "done" /\ report.op = "month_year_iter"
        /\ Ordinal(Get(report.start)) <= Ordinal(Get(report.end))) =>
        LET S == Get(report.start)
            E == Get(report.end)
            ds == report.months
        IN /\ Len(ds) = 12 * (E[1] - S[1]) + E[2] - S[2] + 1
           /\ \A k \in 1..Len(ds) : ds[k][3] = 1
           /\ ds[1] = <<S[1], S[2], 1>>
           /\ ds[Len(ds)] = <<E[1], E[2], 1>>
           /\ \A k \in 1..(Len(ds) - 1) :
                  /\ Ordinal(ds[k]) < Ordinal(ds[k + 1])
                  /\ ds[k + 1] = IF ds[k][2] = 12 THEN <<ds[k][1] + 1, 1, 1>>
                                 ELSE <<ds[k][1], ds[k][2] + 1, 1>>

C11_Witness ==
    /\ pc = "done" /\ report.op = "month_year_iter"
    /\ Get(report.start) = <<2020, 1, 15>> /\ Get(report.end) = <<2020, 3, 2>>
    /\ report.months = << <<2020, 1, 1>>, <<2020, 2, 1>>, <<2020, 3, 1>> >>

\* Across a year's end: December 2019 to January 2021 is fourteen months.
C11_WitnessYears ==
    /\ pc = "done" /\ report.op = "month_year_iter"
    /\ Get(report.start) = <<2019, 12, 31>> /\ Get(report.end) = <<2021, 1, 1>>
    /\ Len(report.months) = 14

(***************************************************************************)
(* C12: calculate_balance called with start > end fails on its range check *)
(* and returns no aggregate, whatever the entries, none included.          *)
(***************************************************************************)
C12_InvalidRange ==
    (pc = "done" /\ report.op = "calculate_balance"
        /\ Ordinal(Get(report.start)) > Ordinal(Get(report.end))) =>
        /\ report.status = ErrRange
        /\ report.complete = None

C12_Witness ==
    /\ pc = "done" /\ report.op = "calculate_balance"
    /\ Get(report.start) = <<2020, 1, 31>> /\ Get(report.end) = <<2020, 1, 1>>
    /\ \E r \in Get(report.qs) : r.when = D1
    /\ report.status = ErrRange

C12_WitnessNoEntries ==
    /\ pc = "done" /\ report.op = "calculate_balance"
    /\ Ordinal(Get(report.start)) > Ordinal(Get(report.end))
    /\ Get(report.qs) = {}
    /\ report.status = ErrRange

(***************************************************************************)
(* C13 as stated: balance on an empty collection of entries, passed or     *)
(* taken by default from a book without entries, returns the 'no data'     *)
(* value and raises nothing; on a non-empty collection an omitted start is *)
(* the earliest 'when' of the entries and an omitted end the latest.       *)
(***************************************************************************)
C13_NoDataAndDefaults ==
    (pc = "done" /\ report.op = "balance") =>
        /\ ReportEntries = {} => report.status = "None"
        /\ (ReportEntries # {} /\ report.status = "ok") =>
            /\ report.start = None =>
                   /\ \E r \in ReportEntries : r.when = Get(report.complete).start
                   /\ \A r \in ReportEntries :
                          Ordinal(Get(report.complete).start) <= Ordinal(r.when)
            /\ report.end = None =>
                   /\ \E r \in ReportEntries : r.when = Get(report.complete).end
                   /\ \A r \in ReportEntries :
                          Ordinal(r.when) <= Ordinal(Get(report.complete).end)

\* The sequences that hold the elements of es in another order.
Reorderings(es) ==
    {[i \in 1..Len(es) |-> es[f[i]]] :
        f \in {g \in [1..Len(es) -> 1..Len(es)] : \A i, j \in 1..Len(es) :
                                                    g[i] = g[j] => i = j}}

(***************************************************************************)
(* C14: without a 'what' override, the description of the merged entry is  *)
(* the one every permutation of the same source entries gives.             *)
(***************************************************************************)
C14_WhatAnyOrder ==
    (call.op = "merge" /\ call.result # None /\ call.ov.what = None) =>
        \A q \in Reorderings(call.entries) :
            MergeKwargs(call.self, q, call.ov).what = Get(call.result).what

\* The sources were passed in descending order of their rendered strings.
C14_Witness ==
    /\ Finished("merge") /\ call.status = "ok" /\ call.ov.what = None
    /\ Len(call.entries) = 2
    /\ StrLess(Rendered(call.entries[2]), Rendered(call.entries[1]))
    /\ Get(call.result).what =
           Rendered(call.entries[2]) \o <<" ", "|", " ">> \o Rendered(call.entries[1])

(***************************************************************************)
(* C15 as stated: the monthly windows of a balance report partition        *)
(* [start, end]: the first begins at start itself, each later one on the   *)
(* first day of a month, each but the last ends on the last day of its     *)
(* month, the last ends at end, and each window begins the day after the   *)
(* one before it ends; no window reaches outside [start, end].             *)
(***************************************************************************)
C15_WindowsPartition ==
    (pc = "done" /\ report.op = "balance" /\ report.status = "ok") =>
        LET ms == report.months
            n == Len(ms)
        IN /\ n >= 1
           /\ ms[1].start = ReportStart
           /\ ms[n].end = ReportEnd
           /\ \A k \in 2..n : ms[k].start[3] = 1
           /\ \A k \in 1..(n - 1) :
                  /\ ms[k].end[3] = DaysInMonth(ms[k].end[1], ms[k].end[2])
                  /\ ms[k].end = PrevDay(ms[k + 1].start)
           /\ \A k \in 1..n :
                  /\ Ordinal(ms[k].start) <= Ordinal(ms[k].end)
                  /\ Within(ms[k].start, ReportStart, ReportEnd)
                  /\ Within(ms[k].end, ReportStart, ReportEnd)

(***************************************************************************)
(* C16 as stated: the tags of the merged entry are the set union of the    *)
(* sources' tags: every tag of a source is there, no other tag is, and a   *)
(* tag that several sources carry is there once.                           *)
(***************************************************************************)
C16_TagsUnion ==
    (call.op = "merge" /\ call.result # None) =>
        LET t == Get(call.result).tags
            es == call.entries
        IN /\ {t[i] : i \in 1..Len(t)} =
                  UNION {{es[k].tags[i] : i \in 1..Len(es[k].tags)} : k \in 1..Len(es)}
           /\ \A i, j \in 1..Len(t) : t[i] = t[j] => i = j

(***************************************************************************)
(* C17: EntryHistory is append-only. Every step of every operation leaves  *)
(* the committed rows of EntryHistory where and as they were; rows are     *)
(* only added after them.                                                  *)
(***************************************************************************)
C17_HistoryAppendOnly ==
    [][/\ Len(history') >= Len(history)
       /\ SubSeq(history', 1, Len(history)) = history]_vars

\* A delete committed its rows after rows that an earlier operation committed.
C17_Witness ==
    /\ Finished("delete") /\ call.status = "ok"
    /\ call.before.history # <<>>
    /\ Len(history) > Len(call.before.history)
    /\ SubSeq(history, 1, Len(call.before.history)) = call.before.history

\* A dry-run merge ended on a table that already held history rows.
C17_WitnessDryRun ==
    /\ Finished("merge") /\ call.status = "ok" /\ call.dry_run
    /\ history # <<>>
    /\ history = call.before.history

RECURSIVE NetBalance(_)
\* The sum of the signed money of a set of rows.
NetBalance(rows) ==
    IF rows = {} THEN 0
    ELSE LET r == CHOOSE x \in rows : \A y \in rows : x.id <= y.id
         IN (IF r.is_income THEN r.amount ELSE 0 - r.amount) + NetBalance(rows \ {r})

\* The rows of a table in the book and account of the running merge.
OfMergedAccount(table) ==
    {r \in table : r.book = call.self /\ r.account = call.entries[1].account}

(***************************************************************************)
(* C18 as stated: a committed merge conserves the net balance: the sum of  *)
(* the signed money over the entries of the book and account is after a    *)
(* successful merge that is no dry run what it was before.                 *)
(***************************************************************************)
C18_MergeConservesBalance ==
    (Finished("merge") /\ call.status = "ok" /\ ~call.dry_run) =>
        NetBalance(OfMergedAccount(entries)) =
            NetBalance(OfMergedAccount(call.before.entries))

\* What holds in place of C18: a committed merge of entries that are all
\* different conserves the net balance.
MergeOfDistinctConservesBalance ==
    Cardinality(SourceIds) = Len(call.entries) => C18_MergeConservesBalance

====
